---- MODULE Spec2Model ----
(***************************************************************************)
(* Model of main.py: the lead pipeline that unwraps the agent's answer,     *)
(* parses it into LeadResponseList, and writes output/leads.json,           *)
(* output/leads.csv and output/leads.xlsx (the last one merged with the     *)
(* previous run's sheet).                                                   *)
(*                                                                          *)
(* A text is a sequence of one-character strings, so that strip(),          *)
(* startswith(), lower() and slicing are computed as Python computes them.  *)
(***************************************************************************)
EXTENDS Integers, Sequences, FiniteSets, TLC

VARIABLES
    pc,                   \* position of the script
    runs,                 \* number of times the script has been started
    clock,                \* the wall clock, in seconds
    raw_response,         \* what agent_executor.invoke returned (its 'output' text)
    doc,                  \* what the JSON payload carried by raw_response decodes to
    output_text,          \* main.py: output_text
    structured_response,  \* main.py: structured_response.leads
    output_dir,           \* the path output/: absent, a directory, or not creatable
    json_file,            \* output/leads.json
    csv_file,             \* output/leads.csv
    xlsx_file,            \* output/leads.xlsx
    df_existing,          \* main.py: df_existing
    df_new,               \* main.py: df_new
    df_out,               \* main.py: df_out
    excel_path_taken,     \* which branch of lines 190-203 the Excel block took
    log,                  \* what the run printed, in order
    pre                   \* the three sink files as they were when the run started

vars == <<pc, runs, clock, raw_response, doc, output_text, structured_response,
          output_dir, json_file, csv_file, xlsx_file, df_existing, df_new, df_out,
          excel_path_taken, log, pre>>

\* ------------------------------------------------------------------ bounds

MaxPieces == 4
MaxLeads == 2
MaxRuns == 2
MaxClock == 1

\* ------------------------------------------------------------------- texts

Whitespace == {" ", "\n"}
\* the grave accent U+0060 (a TLA+ string literal cannot hold that character)
Backtick == "bt"

Fence == <<Backtick, Backtick, Backtick>>
JsonTag == <<"j", "s", "o", "n">>
JsonTagUpper == <<"J", "S", "O", "N">>
Payload == <<"{", "}">>

LowerChar(c) ==
    CASE c = "J" -> "j"
      [] c = "S" -> "s"
      [] c = "O" -> "o"
      [] c = "N" -> "n"
      [] OTHER -> c

\* str.lower()
Lower(s) == [i \in 1..Len(s) |-> LowerChar(s[i])]

\* str.startswith(p)
StartsWith(s, p) == Len(s) >= Len(p) /\ SubSeq(s, 1, Len(p)) = p

RECURSIVE LStripChars(_, _)
LStripChars(s, chars) ==
    IF s # <<>> /\ Head(s) \in chars THEN LStripChars(Tail(s), chars) ELSE s

RECURSIVE RStripChars(_, _)
RStripChars(s, chars) ==
    IF s # <<>> /\ s[Len(s)] \in chars
    THEN RStripChars(SubSeq(s, 1, Len(s) - 1), chars)
    ELSE s

\* str.strip(chars): removes the characters of chars from both ends
StripChars(s, chars) == RStripChars(LStripChars(s, chars), chars)

\* str.strip(): removes whitespace from both ends
Strip(s) == StripChars(s, Whitespace)

\* s[4:]
DropFour(s) == SubSeq(s, 5, Len(s))

\* main.py lines 121-130: the fence-stripping block
Unwrap(t) ==
    IF StartsWith(Strip(t), Fence)
    THEN LET cleaned == Strip(StripChars(Strip(t), {Backtick}))
         IN  IF StartsWith(Lower(cleaned), JsonTag)
             THEN Strip(DropFour(cleaned))
             ELSE cleaned
    ELSE t

Pieces == {Fence, <<Backtick>>, <<" ">>, <<"\n">>, JsonTag, JsonTagUpper, Payload, <<"x">>}

RECURSIVE TextsOf(_)
TextsOf(n) ==
    IF n = 0 THEN {<<>>}
    ELSE TextsOf(n - 1) \cup {t \o p : t \in TextsOf(n - 1), p \in Pieces}

\* the raw texts the unwrapper is applied to
Texts == TextsOf(MaxPieces)

\* ------------------------------------------------------------------- leads

\* class LeadResponse
Lead(company, email, tools) ==
    [company |-> company, contact_info |-> "Toshkent", email |-> email,
     summary |-> "needs website", outreach_message |-> "Salom",
     tools_used |-> tools]

\* the lead records the agent's answers are made of
Leads ==
    {Lead("Old", "a@x", <<"search">>),
     Lead("New", "a@x", <<"search", "scrape">>),
     Lead("Beta", "N/A", <<>>)}

RECURSIVE SeqsUpTo(_, _)
SeqsUpTo(S, n) ==
    IF n = 0 THEN {<<>>}
    ELSE SeqsUpTo(S, n - 1) \cup {Append(q, x) : q \in SeqsUpTo(S, n - 1), x \in S}

\* class LeadResponseList: the values of its field leads
LeadCollections == SeqsUpTo(Leads, MaxLeads)

\* what the JSON document inside the agent's answer decodes to
Docs ==
    {[kind |-> "valid", leads |-> c] : c \in LeadCollections}
        \cup {[kind |-> "missing_field", leads |-> <<>>],
              [kind |-> "malformed", leads |-> <<>>]}

\* the answers of the agent: the bare document, the document in a json fence,
\* and the document after a word of prose
AgentTexts ==
    {Payload,
     Fence \o JsonTag \o <<"\n">> \o Payload \o <<"\n">> \o Fence,
     <<"x", " ">> \o Payload}

\* parser.parse(output_text): the text must be the document and the document
\* must validate as LeadResponseList; anything else raises
Parse(text, d) ==
    IF Strip(text) = Payload /\ d.kind = "valid"
    THEN [ok |-> TRUE, leads |-> d.leads]
    ELSE [ok |-> FALSE, leads |-> <<>>]

\* ------------------------------------------------------------- sink formats

CsvHeader ==
    <<"company", "contact_info", "email", "summary", "outreach_message",
      "tools_used", "scraped_at">>

AllColumns == {CsvHeader[i] : i \in 1..Len(CsvHeader)}

RECURSIVE Join(_, _)
\* sep.join(xs)
Join(sep, xs) ==
    IF xs = <<>> THEN ""
    ELSE IF Len(xs) = 1 THEN xs[1]
    ELSE xs[1] \o sep \o Join(sep, Tail(xs))

\* lines 160-168 and 179-187: one lead as a row stamped with datetime.now()
RowOf(lead, now) ==
    [company |-> lead.company, contact_info |-> lead.contact_info,
     email |-> lead.email, summary |-> lead.summary,
     outreach_message |-> lead.outreach_message,
     tools_used |-> IF lead.tools_used # <<>> THEN Join(";", lead.tools_used) ELSE "",
     scraped_at |-> now]

\* the successive values of datetime.now() over n calls: the clock never runs
\* backwards and may advance between two calls
Stamps(n) ==
    {ts \in [1..n -> clock..MaxClock] : \A i \in 1..(n - 1) : ts[i] <= ts[i + 1]}

ClockAfter(ts) == IF Len(ts) = 0 THEN clock ELSE ts[Len(ts)]

\* the rows of the for loop over structured_response.leads
RowsOf(leads, ts) == [i \in 1..Len(leads) |-> RowOf(leads[i], ts[i])]

\* a file of a sink: absent, written in full, or left truncated or unreadable
\* by a write that failed part-way
NoFile == [state |-> "absent", header |-> <<>>, rows |-> <<>>]
Written(header, rows) == [state |-> "written", header |-> header, rows |-> rows]
Broken == [state |-> "broken", header |-> <<>>, rows |-> <<>>]

\* what a failed write leaves of file f: open() failed and f is untouched, or
\* the write failed after open() had truncated f
AfterFailedWrite(f) == {f, Broken}

\* ---------------------------------------------------------------- pandas

\* the float NaN of a DataFrame cell
NaN == "<NaN>"

\* pandas' default na_values (the ones the leads can produce)
NaStrings == {"", "N/A"}

StringColumns == AllColumns \ {"scraped_at"}

\* pd.read_excel on one cell: a default NA string is read as NaN
ReadCell(v) == IF v \in NaStrings THEN NaN ELSE v

\* DataFrame.to_excel on one cell: NaN is written as an empty cell (na_rep="")
WriteCell(v) == IF v = NaN THEN "" ELSE v

ReadRow(r) == [c \in AllColumns |-> IF c \in StringColumns THEN ReadCell(r[c]) ELSE r[c]]
WriteRow(r) == [c \in AllColumns |-> IF c \in StringColumns THEN WriteCell(r[c]) ELSE r[c]]

\* pd.DataFrame(rows): a list of dicts; an empty list has no columns
DataFrame(rows) ==
    [columns |-> IF rows = <<>> THEN {} ELSE AllColumns, rows |-> rows]

\* pd.read_excel(excel_path) of a sheet this script wrote
ReadExcel(f) == DataFrame([i \in 1..Len(f.rows) |-> ReadRow(f.rows[i])])

\* df.to_excel(excel_path, index=False)
ToExcel(df) ==
    Written(IF df.columns = {} THEN <<>> ELSE CsvHeader,
            [i \in 1..Len(df.rows) |-> WriteRow(df.rows[i])])

\* pd.concat([a, b], ignore_index=True)
Concat(a, b) == [columns |-> a.columns \cup b.columns, rows |-> a.rows \o b.rows]

RECURSIVE KeepFirst(_, _)
\* keep="first" in place of keep="last": the rows no earlier row equals in col
KeepFirst(rs, col) ==
    IF rs = <<>> THEN <<>>
    ELSE IF \E j \in 1..(Len(rs) - 1) : rs[j][col] = rs[Len(rs)][col]
         THEN KeepFirst(SubSeq(rs, 1, Len(rs) - 1), col)
         ELSE KeepFirst(SubSeq(rs, 1, Len(rs) - 1), col) \o <<rs[Len(rs)]>>

RECURSIVE KeepLast(_, _)
\* the rows of rs that no later row equals in column col, in their order
KeepLast(rs, col) ==
    IF rs = <<>> THEN <<>>
    ELSE IF \E j \in 2..Len(rs) : rs[j][col] = rs[1][col]
         THEN KeepLast(Tail(rs), col)
         ELSE <<rs[1]>> \o KeepLast(Tail(rs), col)

\* df.drop_duplicates(subset=[col], keep="last"): KeyError when df has no
\* such column
DropDuplicates(df, col) ==
    IF col \in df.columns
    THEN [ok |-> TRUE, df |-> [columns |-> df.columns, rows |-> KeepLast(df.rows, col)]]
    ELSE [ok |-> FALSE, df |-> df]

\* lines 193-198: concat, then dedup by email, or by company when the frame
\* has no email column
Merge(existing, new) ==
    LET out == Concat(existing, new)
    IN  IF "email" \in out.columns
        THEN DropDuplicates(out, "email")
        ELSE DropDuplicates(out, "company")

\* ------------------------------------------------------------- the script

Terminal == {"Done", "Failed", "Crashed", "AgentFailed"}

NoFrame == DataFrame(<<>>)

Sinks == [json |-> json_file, csv |-> csv_file, xlsx |-> xlsx_file]

Init ==
    /\ pc = "Start"
    /\ runs = 0
    /\ clock = 0
    /\ raw_response = <<>>
    /\ doc = [kind |-> "malformed", leads |-> <<>>]
    /\ output_text = <<>>
    /\ structured_response = <<>>
    /\ output_dir \in {"absent", "blocked"}
    /\ json_file = NoFile
    /\ csv_file = NoFile
    /\ xlsx_file = NoFile
    /\ df_existing = NoFrame
    /\ df_new = NoFrame
    /\ df_out = NoFrame
    /\ excel_path_taken = "none"
    /\ log = <<>>
    /\ pre = [json |-> NoFile, csv |-> NoFile, xlsx |-> NoFile]

\* a fresh process: every module-level variable is unset, the console is empty
FreshProcess ==
    /\ runs' = runs + 1
    /\ clock' = clock
    /\ structured_response' = <<>>
    /\ df_existing' = NoFrame
    /\ df_new' = NoFrame
    /\ df_out' = NoFrame
    /\ excel_path_taken' = "none"
    /\ log' = <<>>
    /\ pre' = Sinks
    /\ UNCHANGED <<output_dir, json_file, csv_file, xlsx_file>>

\* lines 108-110: the script is started and the agent returns its answer
StartRun ==
    /\ pc \in Terminal \cup {"Start"}
    /\ runs < MaxRuns
    /\ FreshProcess
    /\ raw_response' \in AgentTexts
    /\ doc' \in Docs
    /\ output_text' = <<>>
    /\ pc' = "Unwrapping"

\* lines 111-114: the agent call raises and the script ends
AgentRaises ==
    /\ pc \in Terminal \cup {"Start"}
    /\ runs < MaxRuns
    /\ FreshProcess
    /\ raw_response' = <<>>
    /\ doc' = [kind |-> "malformed", leads |-> <<>>]
    /\ output_text' = <<>>
    /\ pc' = "AgentFailed"

\* lines 119-130
UnwrapStep ==
    /\ pc = "Unwrapping"
    /\ output_text' = Unwrap(raw_response)
    /\ pc' = "Validating"
    /\ UNCHANGED <<runs, clock, raw_response, doc, structured_response, output_dir,
                   json_file, csv_file, xlsx_file, df_existing, df_new, df_out,
                   excel_path_taken, log, pre>>

\* the parse stage without its raise: a failed parse is printed and the
\* script goes on with no leads
ValidateStepSwallows ==
    /\ pc = "Validating"
    /\ LET r == Parse(output_text, doc)
       IN  /\ structured_response' = r.leads
           /\ log' = Append(log, IF r.ok THEN "parsed" ELSE "parse_error")
           /\ pc' = "Mkdir"
    /\ UNCHANGED <<runs, clock, raw_response, doc, output_text, output_dir,
                   json_file, csv_file, xlsx_file, df_existing, df_new, df_out,
                   excel_path_taken, pre>>

\* lines 132-137: parser.parse, and the re-raise that ends the script
ValidateStep ==
    /\ pc = "Validating"
    /\ LET r == Parse(output_text, doc)
       IN  IF r.ok
           THEN /\ structured_response' = r.leads
                /\ log' = Append(log, "parsed")
                /\ pc' = "Mkdir"
           ELSE /\ structured_response' = structured_response
                /\ log' = Append(log, "parse_error")
                /\ pc' = "Failed"
    /\ UNCHANGED <<runs, clock, raw_response, doc, output_text, output_dir,
                   json_file, csv_file, xlsx_file, df_existing, df_new, df_out,
                   excel_path_taken, pre>>

\* lines 140-141: output_dir.mkdir(exist_ok=True), outside any try
MkdirStep ==
    /\ pc = "Mkdir"
    /\ IF output_dir = "blocked"
       THEN /\ pc' = "Crashed"
            /\ output_dir' = output_dir
       ELSE /\ pc' = "WriteJson"
            /\ output_dir' = "dir"
    /\ UNCHANGED <<runs, clock, raw_response, doc, output_text, structured_response,
                   json_file, csv_file, xlsx_file, df_existing, df_new, df_out,
                   excel_path_taken, log, pre>>

\* the JSON block with the leads deduplicated by email, as the Excel block
\* deduplicates its rows
WriteJsonDedup ==
    /\ pc = "WriteJson"
    /\ \/ /\ json_file' = Written(<<>>, KeepLast(structured_response, "email"))
          /\ log' = Append(log, "json_saved")
       \/ /\ json_file' \in AfterFailedWrite(json_file)
          /\ log' = Append(log, "json_error")
    /\ pc' = "WriteCsv"
    /\ UNCHANGED <<runs, clock, raw_response, doc, output_text, structured_response,
                   output_dir, csv_file, xlsx_file, df_existing, df_new, df_out,
                   excel_path_taken, pre>>

\* lines 144-151
WriteJson ==
    /\ pc = "WriteJson"
    /\ \/ /\ json_file' = Written(<<>>, structured_response)
          /\ log' = Append(log, "json_saved")
       \/ /\ json_file' \in AfterFailedWrite(json_file)
          /\ log' = Append(log, "json_error")
    /\ pc' = "WriteCsv"
    /\ UNCHANGED <<runs, clock, raw_response, doc, output_text, structured_response,
                   output_dir, csv_file, xlsx_file, df_existing, df_new, df_out,
                   excel_path_taken, pre>>

\* lines 154-172
WriteCsv ==
    /\ pc = "WriteCsv"
    /\ \E ts \in Stamps(Len(structured_response)) :
          /\ clock' = ClockAfter(ts)
          /\ \/ /\ csv_file' = Written(CsvHeader, RowsOf(structured_response, ts))
                /\ log' = Append(log, "csv_saved")
             \/ /\ csv_file' \in AfterFailedWrite(csv_file)
                /\ log' = Append(log, "csv_error")
    /\ pc' = "WriteExcel"
    /\ UNCHANGED <<runs, raw_response, doc, output_text, structured_response,
                   output_dir, json_file, xlsx_file, df_existing, df_new, df_out,
                   excel_path_taken, pre>>

\* lines 190-203: df_out and the branch taken, given df_new and whether
\* pd.read_excel succeeds
Reconcile(new, loads) ==
    IF xlsx_file.state = "absent"
    THEN [path |-> "no_prior", existing |-> NoFrame, out |-> new]
    ELSE IF ~loads
         THEN [path |-> "load_failed", existing |-> NoFrame, out |-> new]
         ELSE LET existing == ReadExcel(xlsx_file)
                  m == Merge(existing, new)
              IN  IF m.ok
                  THEN [path |-> "merged", existing |-> existing, out |-> m.df]
                  ELSE [path |-> "merge_failed", existing |-> existing, out |-> new]

\* the outcomes of pd.read_excel on the sheet: a broken file never loads
LoadOutcomes == IF xlsx_file.state = "written" THEN BOOLEAN ELSE {FALSE}

\* lines 175-209
WriteExcel ==
    /\ pc = "WriteExcel"
    /\ \E ts \in Stamps(Len(structured_response)), loads \in LoadOutcomes :
          LET new == DataFrame(RowsOf(structured_response, ts))
              r == Reconcile(new, loads)
          IN  /\ clock' = ClockAfter(ts)
              /\ df_new' = new
              /\ df_existing' = r.existing
              /\ df_out' = r.out
              /\ excel_path_taken' = r.path
              /\ \/ /\ xlsx_file' = ToExcel(r.out)
                    /\ log' = Append(log, "excel_saved")
                 \/ /\ xlsx_file' \in AfterFailedWrite(xlsx_file)
                    /\ log' = Append(log, "excel_error")
    /\ pc' = "SaveTool"
    /\ UNCHANGED <<runs, raw_response, doc, output_text, structured_response,
                   output_dir, json_file, csv_file, pre>>

\* lines 212-221: save_tool.func, then the closing print
SaveStep ==
    /\ pc = "SaveTool"
    /\ \E msg \in {"save_result", "save_error"} : log' = Append(log, msg)
    /\ pc' = "Done"
    /\ UNCHANGED <<runs, clock, raw_response, doc, output_text, structured_response,
                   output_dir, json_file, csv_file, xlsx_file, df_existing, df_new,
                   df_out, excel_path_taken, pre>>

Next ==
    \/ StartRun
    \/ AgentRaises
    \/ UnwrapStep
    \/ ValidateStep
    \/ MkdirStep
    \/ WriteJson
    \/ WriteCsv
    \/ WriteExcel
    \/ SaveStep

Spec == Init /\ [][Next]_vars

\* ------------------------------------------- the unwrapper applied twice

InitUnwrap ==
    /\ pc = "Unwrapping"
    /\ runs = 1
    /\ clock = 0
    /\ raw_response \in Texts
    /\ doc = [kind |-> "malformed", leads |-> <<>>]
    /\ output_text = <<>>
    /\ structured_response = <<>>
    /\ output_dir = "absent"
    /\ json_file = NoFile
    /\ csv_file = NoFile
    /\ xlsx_file = NoFile
    /\ df_existing = NoFrame
    /\ df_new = NoFrame
    /\ df_out = NoFrame
    /\ excel_path_taken = "none"
    /\ log = <<>>
    /\ pre = [json |-> NoFile, csv |-> NoFile, xlsx |-> NoFile]

\* lines 119-130 again, on the text the first pass produced
Reunwrap ==
    /\ pc = "Validating"
    /\ raw_response' = output_text
    /\ output_text' = Unwrap(output_text)
    /\ pc' = "Reunwrapped"
    /\ UNCHANGED <<runs, clock, doc, structured_response, output_dir, json_file,
                   csv_file, xlsx_file, df_existing, df_new, df_out,
                   excel_path_taken, log, pre>>

NextUnwrap ==
    \/ UnwrapStep
    \/ Reunwrap

SpecUnwrap == InitUnwrap /\ [][NextUnwrap]_vars

\* ------------------------------- the Excel block on any prior sheet

\* the rows a sheet written by this script can hold: a stamped lead as
\* written, or as written again after a load
SheetRows ==
    UNION {{WriteRow(RowOf(l, t)), WriteRow(ReadRow(RowOf(l, t)))} :
               l \in Leads, t \in 0..MaxClock}

\* leads.xlsx as earlier runs can have left it
PriorSheets ==
    {NoFile, Broken} \cup {ToExcel(DataFrame(rows)) : rows \in SeqsUpTo(SheetRows, MaxLeads)}

InitMerge ==
    /\ pc = "WriteExcel"
    /\ runs = 1
    /\ clock = MaxClock
    /\ raw_response = Payload
    /\ structured_response \in LeadCollections
    /\ doc = [kind |-> "valid", leads |-> structured_response]
    /\ output_text = Payload
    /\ output_dir = "dir"
    /\ json_file = NoFile
    /\ csv_file = NoFile
    /\ xlsx_file \in PriorSheets
    /\ df_existing = NoFrame
    /\ df_new = NoFrame
    /\ df_out = NoFrame
    /\ excel_path_taken = "none"
    /\ log = <<"parsed", "json_error", "csv_error">>
    /\ pre = Sinks

NextMerge == WriteExcel

SpecMerge == InitMerge /\ [][NextMerge]_vars

\* ------------------------- the stages of a run on any prior sink content

\* the stamps of a file written when the clock read 0
EarlierStamps(n) == [i \in 1..n |-> 0]

\* leads.json, leads.csv and leads.xlsx as an earlier run on collection c can
\* have left them
PriorJson(c) == {NoFile, Broken, Written(<<>>, c)}

PriorCsv(c) == {NoFile, Broken, Written(CsvHeader, RowsOf(c, EarlierStamps(Len(c))))}

PriorXlsx(c) == {NoFile, Broken, ToExcel(DataFrame(RowsOf(c, EarlierStamps(Len(c)))))}

StageInit(position, printed) ==
    /\ pc = position
    /\ runs = 1
    /\ clock = MaxClock
    /\ output_dir = "dir"
    /\ df_existing = NoFrame
    /\ df_new = NoFrame
    /\ df_out = NoFrame
    /\ excel_path_taken = "none"
    /\ log = printed
    /\ pre = Sinks

\* the parse stage, lines 119-137, entered with the agent's answer
InitParse ==
    /\ raw_response \in AgentTexts
    /\ doc \in Docs
    /\ output_text = <<>>
    /\ structured_response = <<>>
    /\ \E c \in LeadCollections :
          /\ json_file \in PriorJson(c)
          /\ csv_file \in PriorCsv(c)
          /\ xlsx_file \in PriorXlsx(c)
    /\ StageInit("Unwrapping", <<>>)

NextParse ==
    \/ UnwrapStep
    \/ ValidateStep

SpecParse == InitParse /\ [][NextParse]_vars

\* the JSON and CSV blocks, lines 144-172, entered with the validated leads
InitFiles ==
    /\ raw_response = Payload
    /\ structured_response \in LeadCollections
    /\ doc = [kind |-> "valid", leads |-> structured_response]
    /\ output_text = Payload
    /\ \E c \in LeadCollections : json_file \in PriorJson(c)
    /\ \E c \in LeadCollections : csv_file \in PriorCsv(c)
    /\ xlsx_file = NoFile
    /\ StageInit("WriteJson", <<"parsed">>)

NextFiles ==
    \/ WriteJson
    \/ WriteCsv

SpecFiles == InitFiles /\ [][NextFiles]_vars

\* ------------------------------------------------------------------ claims

HasLogged(m) == \E i \in 1..Len(log) : log[i] = m

Attempts(ms) == Cardinality({i \in 1..Len(log) : log[i] \in ms})

\* the six lead fields of a row, without its scraped_at
LeadPart(r) == [c \in StringColumns |-> r[c]]

Emails(rows) == {rows[i].email : i \in 1..Len(rows)}

RowSet(rows) == {rows[i] : i \in 1..Len(rows)}

\* C1: a run whose parse stage failed ends in Failed, and the three sink
\* files are what they were when the run started.
C1_FailedRunWritesNoSink ==
    HasLogged("parse_error") =>
        /\ pc = "Failed"
        /\ json_file = pre.json
        /\ csv_file = pre.csv
        /\ xlsx_file = pre.xlsx

C1_Witness ==
    /\ pc = "Failed"
    /\ HasLogged("parse_error")
    /\ pre.json.state = "written" /\ pre.json.rows # <<>>
    /\ pre.csv.state = "written"
    /\ pre.xlsx.state = "written" /\ pre.xlsx.rows # <<>>

\* C2: once validation succeeded, the run ends in Done with each of the three
\* writers attempted exactly once.
C2_EveryWriterAttemptedThenDone ==
    (HasLogged("parsed") /\ pc \in Terminal) =>
        /\ pc = "Done"
        /\ Attempts({"json_saved", "json_error"}) = 1
        /\ Attempts({"csv_saved", "csv_error"}) = 1
        /\ Attempts({"excel_saved", "excel_error"}) = 1

\* C3: a written spreadsheet holds at most one row per email value.
C3_OneRowPerEmail ==
    xlsx_file.state = "written" =>
        \A i, j \in 1..Len(xlsx_file.rows) :
            xlsx_file.rows[i].email = xlsx_file.rows[j].email => i = j

\* C4: when the Excel block merged, every email of existing-then-incoming has
\* exactly one row in the result, and that row is the last one with that email
\* in the concatenation, field for field.
C4_MergeKeepsLast ==
    excel_path_taken = "merged" =>
        LET cat == df_existing.rows \o df_new.rows
            LastAt(k) ==
                CHOOSE i \in 1..Len(cat) :
                    /\ cat[i].email = k
                    /\ \A j \in (i + 1)..Len(cat) : cat[j].email # k
        IN  \A k \in Emails(cat) :
                LET at == {i \in 1..Len(df_out.rows) : df_out.rows[i].email = k}
                IN  /\ Cardinality(at) = 1
                    /\ \A i \in at : df_out.rows[i] = cat[LastAt(k)]

C4_Witness ==
    /\ excel_path_taken = "merged"
    /\ Len(df_new.rows) = 2
    /\ df_new.rows[1].email = df_new.rows[2].email
    /\ df_new.rows[1].company # df_new.rows[2].company
    /\ \E i \in 1..Len(df_existing.rows) :
          /\ df_existing.rows[i].email = df_new.rows[2].email
          /\ df_existing.rows[i].company # df_new.rows[2].company
    /\ Len(df_out.rows) < Len(df_existing.rows) + 2

\* C5: a run on the collection that alone produced the present sheet leaves
\* the sheet with the same keys and the same lead field values.
C5_SecondRunSameAsFirst ==
    ( /\ pc = "Done"
      /\ excel_path_taken = "merged"
      /\ HasLogged("excel_saved")
      /\ Len(pre.xlsx.rows) = Len(structured_response)
      /\ \A i \in 1..Len(structured_response) :
            LeadPart(pre.xlsx.rows[i]) = LeadPart(RowOf(structured_response[i], 0)) )
    => {LeadPart(r) : r \in RowSet(xlsx_file.rows)}
           = {LeadPart(r) : r \in RowSet(pre.xlsx.rows)}

\* C6: the rows of one CSV file share one scraped_at, and so do the new rows
\* of the Excel block.
C6_SharedTimestamp ==
    /\ csv_file.state = "written" =>
          \A i, j \in 1..Len(csv_file.rows) :
              csv_file.rows[i].scraped_at = csv_file.rows[j].scraped_at
    /\ \A i, j \in 1..Len(df_new.rows) :
          df_new.rows[i].scraped_at = df_new.rows[j].scraped_at

\* C7: a run in which the prior sheet could not be loaded or merged ends in
\* Done, the sheet it saves holds the run's rows only, and the failure to
\* load has been logged.
C7_LoadFailureRecorded ==
    (excel_path_taken \in {"load_failed", "merge_failed"} /\ pc \in Terminal) =>
        /\ pc = "Done"
        /\ HasLogged("excel_saved") => xlsx_file = ToExcel(df_new)
        /\ HasLogged("merge_load_error")

\* C8: unwrapping an unwrapped text returns it unchanged.
C8_UnwrapIdempotent ==
    pc = "Reunwrapped" => output_text = raw_response

\* C9: once the JSON and the CSV write of a run have both succeeded, each file
\* holds one entry per lead of the run, in order and with duplicates kept,
\* nothing else, and the CSV file its header.
C9_LatestRunOnly ==
    (HasLogged("json_saved") /\ HasLogged("csv_saved")) =>
        LET leads == structured_response
        IN  /\ json_file.state = "written"
            /\ Len(json_file.rows) = Len(leads)
            /\ \A i \in 1..Len(leads) : json_file.rows[i] = leads[i]
            /\ csv_file.state = "written"
            /\ csv_file.header = CsvHeader
            /\ Len(csv_file.rows) = Len(leads)
            /\ \A i \in 1..Len(leads) :
                  /\ csv_file.rows[i].company = leads[i].company
                  /\ csv_file.rows[i].contact_info = leads[i].contact_info
                  /\ csv_file.rows[i].email = leads[i].email
                  /\ csv_file.rows[i].summary = leads[i].summary
                  /\ csv_file.rows[i].outreach_message = leads[i].outreach_message
                  /\ csv_file.rows[i].tools_used = Join(";", leads[i].tools_used)

C9_Witness ==
    /\ pc \notin {"WriteJson", "WriteCsv"}
    /\ HasLogged("json_saved") /\ HasLogged("csv_saved")
    /\ pre.json.state = "written" /\ pre.json.rows # <<>>
    /\ pre.csv.state = "written" /\ pre.csv.rows # <<>>
    /\ pre.json.rows # structured_response
    /\ Len(structured_response) = 2
    /\ structured_response[1].email = structured_response[2].email
    /\ Len(csv_file.rows) = 2

\* C10: a run that loaded and merged the prior sheet and saved the result
\* keeps every email of the prior sheet, and keeps unchanged every prior row
\* whose email is not among the run's leads.
C10_HistoryPreserved ==
    (pc = "Done" /\ excel_path_taken = "merged" /\ HasLogged("excel_saved")) =>
        /\ Emails(pre.xlsx.rows) \subseteq Emails(xlsx_file.rows)
        /\ \A r \in RowSet(pre.xlsx.rows) :
              r.email \notin Emails(structured_response) =>
                  r \in RowSet(xlsx_file.rows)

====
